---- MODULE Spec2Model ----
(***************************************************************************)
(* MagicLens: the mask editor's undo history (AdvancedCanvasEditor in      *)
(* components/QuickActionsPanel.tsx), the generate endpoint                *)
(* (api/generate/route.ts), the Bria client (lib/bria.ts) and the editor   *)
(* page's request handlers (editor/page.tsx); the editor's rotate and crop *)
(* modes with their keyboard shortcuts, and pollGenerationStatus.          *)
(*                                                                         *)
(* The mask canvas is abstracted to the number of drawStroke calls that    *)
(* have been composited on it since it was last blank (0 = blank canvas);  *)
(* a history snapshot (ImageData) is the canvas value it was taken from.   *)
(***************************************************************************)
EXTENDS Integers, Sequences, FiniteSets, TLC

VARIABLES
    \* ---- AdvancedCanvasEditor ----
    history,        \* ImageData[] snapshots
    historyIndex,   \* cursor into history, -1 when nothing was saved
    canvas,         \* content of the mask canvas
    hasMask,        \* hasMask state
    isDrawing,      \* isDrawing state
    isPanning,      \* isPanning state
    lastOp,         \* the editor handler that ran last
    lastCan,        \* for undo / redo: the exposed canUndo / canRedo at the call
    steps,          \* number of editor handler invocations so far
    undoRun,        \* strokes drawn and undos made since the image was loaded
    \* ---- StudioPage ----
    originalImage,  \* the page's originalImage, "" when null
    currentImage,   \* the page's currentImage, "" when null
    maskData,       \* the page's maskData (set through onMaskChange)
    isGenerating,   \* the page's isGenerating
    pendingOperation, \* operation stored by the chat agent, Undefined if none
    pageResult,     \* what the page showed for the last finished request
    requestsSent,   \* number of fetch('/api/generate') calls the page made
    userTriggers,   \* number of user clicks that got past the handler's guards
    net,            \* the page's /api/generate requests that are in flight
    \* ---- POST /api/generate and the Bria client ----
    apiToken,       \* process.env.BRIA_API_TOKEN is set
    pc,             \* position of the POST handler: idle, awaitBackend, done
    req,            \* body of the request being handled
    calls,          \* client functions POST invoked for this request
    fetches,        \* backend endpoints fetched for this request
    backend,        \* how the backend answered the fetch, "none" before
    clientResult,   \* what the client function returned or threw
    resp,           \* the response POST produced
    \* ---- AdvancedCanvasEditor: rotate and crop ----
    rotation,       \* rotation state, in degrees
    isRotating,     \* isRotating state
    hasRotationChanges, \* hasRotationChanges state
    isCropping,     \* isCropping state
    cropArea,       \* cropArea state
    hasCropChanges, \* hasCropChanges state
    imageUpdates,   \* the arguments of the onImageUpdate calls so far
    keys,           \* number of keydown events handled so far
    lastKey,        \* the last keydown event and the mode it arrived in
    \* ---- pollGenerationStatus ----
    maxAttempts,    \* the maxAttempts argument
    pollI,          \* the loop variable i
    pollPc,         \* position in the loop: loop, awaitFetch, sleep, returned, thrown
    statusRequests, \* number of fetch(statusUrl) calls made
    responses,      \* the status responses received, in order
    pollOutcome     \* what the call returned or threw, "none" before

editorVars == <<history, historyIndex, canvas, hasMask, isDrawing, isPanning,
                lastOp, lastCan, steps, undoRun>>
pageVars == <<originalImage, currentImage, maskData, isGenerating, pendingOperation, pageResult,
              requestsSent, userTriggers, net>>
routeVars == <<apiToken, pc, req, calls, fetches, backend, clientResult, resp>>
transformVars == <<rotation, isRotating, hasRotationChanges, isCropping, cropArea,
                   hasCropChanges, imageUpdates, keys, lastKey>>
pollVars == <<maxAttempts, pollI, pollPc, statusRequests, responses, pollOutcome>>
vars == <<editorVars, pageVars, routeVars, transformVars, pollVars>>
\* the page's state apart from maskData
pageOther == <<originalImage, currentImage, isGenerating, pendingOperation,
               pageResult, requestsSent, userTriggers, net>>

----------------------------------------------------------------------------
(* Bounds *)

\* editor handler invocations explored after the initial strokes
MaxSteps == 8

(* Program constants *)

\* "Limit history to 50 states"
HistoryLimit == 50

Null == [null |-> TRUE]
Undefined == "undefined"
NoReq == [via |-> "none", from |-> "none"]
NoResp == [status |-> 0, error |-> "", needsMask |-> FALSE, imageUrl |-> ""]
NoResult == [thrown |-> FALSE, imageUrl |-> "pending", seed |-> 0]

Tools == {"brush", "eraser", "pan", "select"}

----------------------------------------------------------------------------
(* AdvancedCanvasEditor: pure parts *)

\* one drawStroke call composites one more dot / segment on the canvas
DrawStroke(cv) == cv + 1

\* ctx.clearRect over the whole canvas
Blank == 0

SaveToHistory_keepOldest(h, idx, cv) ==
    LET pushed == Append(SubSeq(h, 1, idx + 1), cv)
        newHistory == IF Len(pushed) > HistoryLimit
                      THEN SubSeq(pushed, 1, Len(pushed) - 1)
                      ELSE pushed
    IN  [history |-> newHistory, historyIndex |-> Len(newHistory) - 1]

SaveToHistory_keepRedo(h, idx, cv) ==
    LET pushed == Append(h, cv)
        newHistory == IF Len(pushed) > HistoryLimit THEN Tail(pushed) ELSE pushed
    IN  [history |-> newHistory,
         historyIndex |-> IF idx + 1 < HistoryLimit THEN idx + 1 ELSE HistoryLimit - 1]

\* saveToHistory: history.slice(0, historyIndex + 1), push, shift when over 50
SaveToHistory(h, idx, cv) ==
    LET pushed == Append(SubSeq(h, 1, idx + 1), cv)
        newHistory == IF Len(pushed) > HistoryLimit THEN Tail(pushed) ELSE pushed
    IN  [history |-> newHistory, historyIndex |-> Len(newHistory) - 1]

\* exportMask: null without a mask, otherwise the binarised canvas as a PNG
ExportMask(cv, hm) == IF ~hm THEN Null ELSE [png |-> cv]

CanUndo_nonEmpty == historyIndex >= 0

\* useImperativeHandle: canUndo
CanUndo == historyIndex > 0

\* useImperativeHandle: canRedo
CanRedo == historyIndex < Len(history) - 1

\* the history after n completed single-dot brush strokes on a fresh image
RECURSIVE StrokesDone(_)
StrokesDone(n) ==
    IF n = 0 THEN [history |-> <<>>, historyIndex |-> -1]
    ELSE LET p == StrokesDone(n - 1)
         IN  SaveToHistory(p.history, p.historyIndex, n)

\* numbers of completed strokes the exploration starts from
InitStrokes == {0, HistoryLimit - 1}

----------------------------------------------------------------------------
(* AdvancedCanvasEditor: handlers *)

\* undoRun once a handler other than a stroke's or undo ran
OffRun == [strokes |-> -1, undos |-> 0]

\* undoRun after handler op: the strokes completed since the image was loaded
\* while nothing but strokes were drawn, then the undos made while nothing but
\* undo was invoked
NextRun(op) ==
    IF undoRun.strokes < 0 THEN OffRun
    ELSE IF op \in {"pointerDown", "pointerMove"}
    THEN IF undoRun.undos = 0 THEN undoRun ELSE OffRun
    ELSE IF op = "pointerUp"
    THEN IF undoRun.undos > 0 THEN OffRun
         ELSE IF isDrawing THEN [undoRun EXCEPT !.strokes = @ + 1] ELSE undoRun
    ELSE IF op = "undo"
    THEN IF isDrawing THEN OffRun ELSE [undoRun EXCEPT !.undos = @ + 1]
    ELSE OffRun

Tick(op, can) ==
    /\ steps < MaxSteps
    /\ steps' = steps + 1
    /\ lastOp' = op
    /\ lastCan' = can
    /\ undoRun' = NextRun(op)

\* handlePointerDown
PointerDown ==
    \E tool \in Tools, disabled \in BOOLEAN :
        /\ Tick("pointerDown", FALSE)
        /\ IF disabled
           THEN UNCHANGED <<canvas, hasMask, isDrawing, isPanning>>
           ELSE IF tool = "pan"
           THEN /\ isPanning' = TRUE
                /\ UNCHANGED <<canvas, hasMask, isDrawing>>
           ELSE IF tool \in {"brush", "eraser"}
           THEN /\ isDrawing' = TRUE
                /\ canvas' = DrawStroke(canvas)
                /\ hasMask' = TRUE
                /\ UNCHANGED isPanning
           ELSE UNCHANGED <<canvas, hasMask, isDrawing, isPanning>>
        /\ UNCHANGED <<history, historyIndex, pageVars, routeVars, transformVars, pollVars>>

\* handlePointerMove
PointerMove ==
    \E tool \in Tools, disabled \in BOOLEAN :
        /\ Tick("pointerMove", FALSE)
        /\ IF ~disabled /\ ~isPanning /\ isDrawing /\ tool \in {"brush", "eraser"}
           THEN /\ canvas' = DrawStroke(canvas)
                /\ hasMask' = TRUE
           ELSE UNCHANGED <<canvas, hasMask>>
        /\ UNCHANGED <<history, historyIndex, isDrawing, isPanning, pageVars, routeVars,
                       transformVars, pollVars>>

\* handlePointerUp: saveToHistory and exportMask when a stroke was in progress
PointerUp ==
    /\ Tick("pointerUp", FALSE)
    /\ IF isDrawing
       THEN LET s == SaveToHistory(history, historyIndex, canvas)
            IN  /\ history' = s.history
                /\ historyIndex' = s.historyIndex
                /\ maskData' = ExportMask(canvas, hasMask)
       ELSE UNCHANGED <<history, historyIndex, maskData>>
    /\ isDrawing' = FALSE
    /\ isPanning' = FALSE
    /\ UNCHANGED <<canvas, hasMask, pageOther, routeVars, transformVars, pollVars>>

\* clearMask, on the editor alone
ClearMaskEffect ==
    LET s == SaveToHistory(history, historyIndex, Blank)
    IN  /\ canvas' = Blank
        /\ hasMask' = FALSE
        /\ history' = s.history
        /\ historyIndex' = s.historyIndex

\* clearMask called through the editor's ref
ClearMask ==
    /\ Tick("clearMask", FALSE)
    /\ ClearMaskEffect
    /\ maskData' = Null
    /\ UNCHANGED <<isDrawing, isPanning, pageOther, routeVars, transformVars, pollVars>>

\* undo (button, Ctrl+Z or the ref); exportMask sees the hasMask of the
\* render the callback was created in
Undo ==
    /\ Tick("undo", CanUndo)
    /\ IF historyIndex <= 0
       THEN UNCHANGED <<canvas, hasMask, historyIndex, maskData>>
       ELSE LET newIndex == historyIndex - 1
            IN  /\ canvas' = history[newIndex + 1]
                /\ hasMask' = TRUE
                /\ historyIndex' = newIndex
                /\ maskData' = ExportMask(canvas', hasMask)
    /\ UNCHANGED <<history, isDrawing, isPanning, pageOther, routeVars, transformVars, pollVars>>

\* redo (button, Ctrl+Shift+Z or the ref)
Redo ==
    /\ Tick("redo", CanRedo)
    /\ IF historyIndex >= Len(history) - 1
       THEN UNCHANGED <<canvas, hasMask, historyIndex, maskData>>
       ELSE LET newIndex == historyIndex + 1
            IN  /\ canvas' = history[newIndex + 1]
                /\ historyIndex' = newIndex
                /\ hasMask' = TRUE
                /\ maskData' = ExportMask(canvas', hasMask)
    /\ UNCHANGED <<history, isDrawing, isPanning, pageOther, routeVars, transformVars, pollVars>>

LoadImage_keepIndex ==
    /\ Tick("loadImage", FALSE)
    /\ canvas' = Blank
    /\ hasMask' = FALSE
    /\ history' = <<>>
    /\ UNCHANGED <<historyIndex, isDrawing, isPanning, pageVars, routeVars, transformVars,
                   pollVars>>

\* the load-image effect's img.onload: blank canvas, empty history
LoadImage ==
    /\ Tick("loadImage", FALSE)
    /\ canvas' = Blank
    /\ hasMask' = FALSE
    /\ history' = <<>>
    /\ historyIndex' = -1
    /\ UNCHANGED <<isDrawing, isPanning, pageVars, routeVars, transformVars, pollVars>>

----------------------------------------------------------------------------
(* AdvancedCanvasEditor: rotate and crop *)
(* An image data URL is a string; "" stands for null.  The editor's        *)
(* imageUrl prop is the page's currentImage and its onImageUpdate prop is  *)
(* the page's handler, which sets currentImage and originalImage.          *)

\* keydown events explored
MaxKeys == 2

\* onImageUpdate calls after which the Apply button is not explored further
MaxUpdates == 1

\* positions of the rotation slider explored
Rotations == {-90, 0, 90}

Keys == {"Enter", "Escape"}
KeyTargets == {"input", "textarea", "body"}

ZeroArea == [x |-> 0, y |-> 0, width |-> 0, height |-> 0]

\* imageDimensions: its initial value, and the size of a loaded image
DefaultDimensions == [width |-> 800, height |-> 600]
ImageDimensions == [width |-> 100, height |-> 100]

\* minSize of handleCropMouseMove
MinCropSize == 50

Min(a, b) == IF a < b THEN a ELSE b

\* the transform state of the current render
Transform ==
    [rotation |-> rotation, isRotating |-> isRotating,
     hasRotationChanges |-> hasRotationChanges, isCropping |-> isCropping,
     cropArea |-> cropArea, hasCropChanges |-> hasCropChanges]

\* what a handler did: the state it set and its onImageUpdate calls
Did(t, updates) == [t |-> t, updates |-> updates]

GetRotatedImage(imageUrl, rot) ==
    IF imageUrl = "" \/ rot = 0 THEN "" ELSE "rotated"

GetCroppedImage(imageUrl, area) ==
    IF imageUrl = "" \/ area.width = 0 \/ area.height = 0 THEN "" ELSE "cropped"

RotationReset(t) ==
    [t EXCEPT !.rotation = 0, !.isRotating = FALSE, !.hasRotationChanges = FALSE]

CropReset(t) ==
    [t EXCEPT !.isCropping = FALSE, !.cropArea = ZeroArea, !.hasCropChanges = FALSE]

\* applyRotation
ApplyRotation(t, imageUrl) ==
    LET rotatedImage == GetRotatedImage(imageUrl, t.rotation)
    IN  IF rotatedImage # ""
        THEN Did(RotationReset(t), <<rotatedImage>>)
        ELSE Did(t, <<>>)

\* applyCrop
ApplyCrop(t, imageUrl) ==
    LET croppedImage == GetCroppedImage(imageUrl, t.cropArea)
    IN  IF croppedImage # ""
        THEN Did(CropReset(t), <<croppedImage>>)
        ELSE Did(t, <<>>)

\* initializeCrop: 80% of the image, centred
InitializeCrop(t, dims) ==
    [t EXCEPT !.isCropping = TRUE, !.hasCropChanges = FALSE,
              !.cropArea = [x |-> dims.width \div 10, y |-> dims.height \div 10,
                            width |-> (dims.width * 8) \div 10,
                            height |-> (dims.height * 8) \div 10]]

\* handleKeyDown, Enter
OnEnter(t, imageUrl) ==
    IF t.isCropping /\ t.hasCropChanges THEN ApplyCrop(t, imageUrl)
    ELSE IF t.isRotating /\ t.hasRotationChanges THEN ApplyRotation(t, imageUrl)
    ELSE Did(t, <<>>)

OnEscape_keepChanges(t) ==
    IF t.isCropping THEN [t EXCEPT !.isCropping = FALSE, !.cropArea = ZeroArea]
    ELSE IF t.isRotating THEN [t EXCEPT !.rotation = 0, !.isRotating = FALSE]
    ELSE t

\* handleKeyDown, Escape
OnEscape(t) ==
    IF t.isCropping THEN CropReset(t)
    ELSE IF t.isRotating THEN RotationReset(t)
    ELSE t

\* handleKeyDown for the Enter and Escape keys
HandleKeyDown(t, imageUrl, key, target) ==
    IF target \in {"input", "textarea"} THEN Did(t, <<>>)
    ELSE IF key = "Enter" THEN OnEnter(t, imageUrl)
    ELSE IF key = "Escape" THEN Did(OnEscape(t), <<>>)
    ELSE Did(t, <<>>)

\* the mode a key event arrives in
Mode(t) ==
    IF t.isCropping THEN "crop" ELSE IF t.isRotating THEN "rotate" ELSE "none"

\* the state a handler set, and the page's onImageUpdate for each call
Commit(did) ==
    /\ rotation' = did.t.rotation
    /\ isRotating' = did.t.isRotating
    /\ hasRotationChanges' = did.t.hasRotationChanges
    /\ isCropping' = did.t.isCropping
    /\ cropArea' = did.t.cropArea
    /\ hasCropChanges' = did.t.hasCropChanges
    /\ imageUpdates' = imageUpdates \o did.updates
    /\ IF did.updates = <<>>
       THEN UNCHANGED <<currentImage, originalImage>>
       ELSE /\ currentImage' = did.updates[Len(did.updates)]
            /\ originalImage' = did.updates[Len(did.updates)]
    /\ UNCHANGED <<maskData, isGenerating, pendingOperation, pageResult, requestsSent,
                   userTriggers, net, editorVars, routeVars, pollVars>>

\* a keydown event on the window
KeyDown ==
    \E key \in Keys, target \in KeyTargets :
        /\ keys < MaxKeys
        /\ keys' = keys + 1
        /\ lastKey' = [key |-> key, target |-> target, mode |-> Mode(Transform),
                       changes |-> IF isCropping THEN hasCropChanges
                                   ELSE hasRotationChanges]
        /\ Commit(HandleKeyDown(Transform, currentImage, key, target))

\* the Rotate button of the toolbar
RotateButton ==
    /\ currentImage # ""
    /\ Commit(Did(IF isRotating
                  THEN RotationReset(Transform)
                  ELSE [Transform EXCEPT !.isRotating = TRUE, !.isCropping = FALSE],
                  <<>>))
    /\ UNCHANGED <<keys, lastKey>>

\* the Crop button of the toolbar
CropButton ==
    /\ currentImage # ""
    /\ \E dims \in {DefaultDimensions, ImageDimensions} :
        Commit(Did(IF isCropping
                   THEN CropReset(Transform)
                   ELSE [InitializeCrop(Transform, dims) EXCEPT !.isRotating = FALSE],
                   <<>>))
    /\ UNCHANGED <<keys, lastKey>>

\* the rotation slider, shown in rotate mode
RotationSlider ==
    /\ currentImage # "" /\ isRotating
    /\ \E value \in Rotations \ {rotation} :
        Commit(Did([Transform EXCEPT !.rotation = value, !.hasRotationChanges = TRUE],
                   <<>>))
    /\ UNCHANGED <<keys, lastKey>>

\* handleCropMouseDown and handleCropMouseMove: the crop area is moved to the
\* image's corner, or resized from its south-east handle down to minSize
CropDrag ==
    /\ currentImage # "" /\ isCropping
    /\ \E move \in BOOLEAN, dims \in {DefaultDimensions, ImageDimensions} :
        /\ Commit(Did([Transform EXCEPT
                         !.cropArea =
                             IF move THEN [cropArea EXCEPT !.x = 0, !.y = 0]
                             ELSE [cropArea EXCEPT
                                     !.width = Min(MinCropSize, dims.width - cropArea.x),
                                     !.height = Min(MinCropSize, dims.height - cropArea.y)],
                         !.hasCropChanges = TRUE],
                      <<>>))
    /\ UNCHANGED <<keys, lastKey>>

\* the Apply button, shown while there are rotation or crop changes; both
\* callbacks see the state of the render the button was shown in
ApplyButton ==
    /\ currentImage # "" /\ (hasRotationChanges \/ hasCropChanges)
    /\ Len(imageUpdates) < MaxUpdates
    /\ LET r == IF hasRotationChanges THEN ApplyRotation(Transform, currentImage)
                ELSE Did(Transform, <<>>)
           c == IF hasCropChanges THEN ApplyCrop(Transform, currentImage)
                ELSE Did(Transform, <<>>)
       IN  Commit(Did([r.t EXCEPT !.isCropping = c.t.isCropping,
                                  !.cropArea = c.t.cropArea,
                                  !.hasCropChanges = c.t.hasCropChanges],
                      r.updates \o c.updates))
    /\ UNCHANGED <<keys, lastKey>>

\* the Cancel button, shown while there are rotation or crop changes
CancelButton ==
    /\ currentImage # "" /\ (hasRotationChanges \/ hasCropChanges)
    /\ LET r == IF isRotating
                THEN [Transform EXCEPT !.rotation = 0, !.hasRotationChanges = FALSE]
                ELSE Transform
       IN  Commit(Did(IF isCropping THEN CropReset(r) ELSE r, <<>>))
    /\ UNCHANGED <<keys, lastKey>>

\* resetTransforms, through the editor's ref
ResetTransforms ==
    /\ Commit(Did(CropReset(RotationReset(Transform)), <<>>))
    /\ UNCHANGED <<keys, lastKey>>

----------------------------------------------------------------------------
(* lib/bria.ts: the backend client *)

Images == {"imgA", "imgB"}
Masks == {[png |-> 1]}

\* values of Math.floor(Math.random() * 1000000) that are explored
Seeds == {1, 2}

EditFns == {"removeBackground", "blurBackground", "replaceBackground",
            "expandImage", "upscaleImage", "enhanceImage", "eraseElements"}
ClientFns == EditFns \cup {"generateImage"}

\* the URL each dedicated client function fetches (BRIA_EDIT_BASE + path)
EditEndpoint(fn) ==
    CASE fn = "removeBackground"  -> "/v2/image/edit/remove_background"
      [] fn = "blurBackground"    -> "/v2/image/edit/blur_background"
      [] fn = "replaceBackground" -> "/v2/image/edit/replace_background"
      [] fn = "expandImage"       -> "/v2/image/edit/expand"
      [] fn = "upscaleImage"      -> "/v2/image/edit/increase_resolution"
      [] fn = "enhanceImage"      -> "/v2/image/edit/enhance"
      [] fn = "eraseElements"     -> "/v2/image/edit/erase"

GenerateEndpoint_maskOnly(image, mask) ==
    IF mask # Null THEN "/v2/image/edit/gen_fill" ELSE "/v2/image/generate"

\* generateImage: generateWithGenFill when image and mask are both truthy,
\* generateStandard otherwise
GenerateEndpoint(image, mask) ==
    IF image # "" /\ mask # Null
    THEN "/v2/image/edit/gen_fill"
    ELSE "/v2/image/generate"

Endpoint(fn, image, mask) ==
    IF fn = "generateImage" THEN GenerateEndpoint(image, mask) ELSE EditEndpoint(fn)

\* the placeholder URL of mockGenerateResponse
PlaceholderUrl(seed) ==
    IF seed = 1 THEN "https://picsum.photos/seed/1/1024/1024"
                ELSE "https://picsum.photos/seed/2/1024/1024"

\* mockGenerateResponse
MockGenerateResponse(seed) ==
    [thrown |-> FALSE, imageUrl |-> PlaceholderUrl(seed), seed |-> seed]

ClientStart_alwaysFetch(fn, image, mask, token, seed) ==
    [kind |-> "fetch", endpoint |-> Endpoint(fn, image, mask)]

\* a client function up to its first await: without a token it returns its
\* mock response, with one it issues its fetch
ClientStart(fn, image, mask, token, seed) ==
    IF ~token
    THEN [kind |-> "return",
          result |-> IF fn = "generateImage"
                     THEN MockGenerateResponse(seed)
                     ELSE [thrown |-> FALSE, imageUrl |-> image, seed |-> 0]]
    ELSE [kind |-> "fetch", endpoint |-> Endpoint(fn, image, mask)]

\* answers of the backend: OK with a result, OK without a result object,
\* a non-OK status, a rejected fetch
BackendOutcomes == {"ok", "okNoResult", "notOk", "networkError"}

Thrown == [thrown |-> TRUE, imageUrl |-> Undefined, seed |-> 0]

\* a client function after its fetch settled
ClientFinish(fn, outcome) ==
    CASE outcome = "ok" -> [thrown |-> FALSE, imageUrl |-> "backendUrl", seed |-> 0]
      [] outcome = "okNoResult" ->
            IF fn = "generateImage"
            THEN Thrown
            ELSE [thrown |-> FALSE, imageUrl |-> Undefined, seed |-> 0]
      [] OTHER -> Thrown

----------------------------------------------------------------------------
(* lib/bria.ts: pollGenerationStatus *)

\* largest maxAttempts explored
MaxAttempts == 4

Statuses == {"completed", "failed", "pending"}

\* the JSON bodies of the status endpoint: data.result and data.error are
\* present or not
StatusResponses == [status : Statuses, result : BOOLEAN, error : BOOLEAN]

\* the for loop's condition
PollMore(i, max) == i < max

PollStep_anyCompleted(data) ==
    IF data.status = "completed" THEN "return"
    ELSE IF data.status = "failed"
    THEN IF data.error THEN "throw data.error" ELSE "throw Generation failed"
    ELSE "sleep"

\* the loop body after response.json() resolved with data
PollStep(data) ==
    IF data.status = "completed" /\ data.result THEN "return"
    ELSE IF data.status = "failed"
    THEN IF data.error THEN "throw data.error" ELSE "throw Generation failed"
    ELSE "sleep"

\* the loop's test: another iteration, or the throw after the loop
PollLoop ==
    /\ pollPc = "loop"
    /\ IF PollMore(pollI, maxAttempts)
       THEN /\ statusRequests' = statusRequests + 1
            /\ pollPc' = "awaitFetch"
            /\ UNCHANGED pollOutcome
       ELSE /\ pollPc' = "thrown"
            /\ pollOutcome' = "throw Generation timed out"
            /\ UNCHANGED statusRequests
    /\ UNCHANGED <<maxAttempts, pollI, responses, editorVars, pageVars, routeVars,
                   transformVars>>

\* the status endpoint answered with a JSON body
PollResponse ==
    /\ pollPc = "awaitFetch"
    /\ \E data \in StatusResponses :
        /\ responses' = Append(responses, data)
        /\ IF PollStep(data) = "return"
           THEN /\ pollPc' = "returned"
                /\ pollOutcome' = "return"
           ELSE IF PollStep(data) = "sleep"
           THEN /\ pollPc' = "sleep"
                /\ UNCHANGED pollOutcome
           ELSE /\ pollPc' = "thrown"
                /\ pollOutcome' = PollStep(data)
    /\ UNCHANGED <<maxAttempts, pollI, statusRequests, editorVars, pageVars, routeVars,
                   transformVars>>

\* fetch rejected or the body was not JSON: the await throws out of the loop
PollRejected ==
    /\ pollPc = "awaitFetch"
    /\ pollPc' = "thrown"
    /\ pollOutcome' = "throw rejection"
    /\ UNCHANGED <<maxAttempts, pollI, statusRequests, responses, editorVars, pageVars,
                   routeVars, transformVars>>

\* the setTimeout of intervalMs fired: i++
PollWake ==
    /\ pollPc = "sleep"
    /\ pollI' = pollI + 1
    /\ pollPc' = "loop"
    /\ UNCHANGED <<maxAttempts, statusRequests, responses, pollOutcome, editorVars,
                   pageVars, routeVars, transformVars>>

----------------------------------------------------------------------------
(* api/generate/route.ts: POST *)

MaskOps == {"inpaint_remove", "inpaint_replace", "inpaint_add"}
DedicatedOps == {"background_remove", "background_blur", "background_replace",
                 "image_expand", "image_upscale", "hdr_enhance", "erase_element"}
Operations == DedicatedOps \cup MaskOps \cup
              {"generate_new", "style_transfer", "camera_adjust", "combine_images",
               Undefined}

Requests == [via : {"POST"}, image : Images \cup {""}, mask : Masks \cup {Null},
             params : BOOLEAN, operation : Operations, from : {"http"}]

Reply(status, error, needsMask, imageUrl) ==
    [status |-> status, error |-> error, needsMask |-> needsMask, imageUrl |-> imageUrl]

Dispatch_enhanceAsUpscale(operation) ==
    CASE operation = "background_remove"  -> "removeBackground"
      [] operation = "background_blur"    -> "blurBackground"
      [] operation = "background_replace" -> "replaceBackground"
      [] operation = "image_expand"       -> "expandImage"
      [] operation = "image_upscale"      -> "upscaleImage"
      [] operation = "hdr_enhance"        -> "upscaleImage"
      [] operation = "erase_element"      -> "eraseElements"
      [] OTHER                            -> "generateImage"

\* switch (operation): the client function of each case, default generateImage
Dispatch(operation) ==
    CASE operation = "background_remove"  -> "removeBackground"
      [] operation = "background_blur"    -> "blurBackground"
      [] operation = "background_replace" -> "replaceBackground"
      [] operation = "image_expand"       -> "expandImage"
      [] operation = "image_upscale"      -> "upscaleImage"
      [] operation = "hdr_enhance"        -> "enhanceImage"
      [] operation = "erase_element"      -> "eraseElements"
      [] OTHER                            -> "generateImage"

Route_noMaskCheck(r) ==
    IF r.image = ""
    THEN [kind |-> "reply", resp |-> Reply(400, "Image is required", FALSE, "")]
    ELSE IF ~r.params
    THEN [kind |-> "reply", resp |-> Reply(400, "FIBO parameters are required", FALSE, "")]
    ELSE IF r.operation = "erase_element" /\ r.mask = Null
    THEN [kind |-> "reply", resp |-> Reply(400, "Please draw", TRUE, "")]
    ELSE [kind |-> "call", fn |-> Dispatch(r.operation)]

Route_paramsFirst(r) ==
    IF ~r.params
    THEN [kind |-> "reply", resp |-> Reply(400, "FIBO parameters are required", FALSE, "")]
    ELSE IF r.image = ""
    THEN [kind |-> "reply", resp |-> Reply(400, "Image is required", FALSE, "")]
    ELSE IF r.operation \in MaskOps \cup {"erase_element"} /\ r.mask = Null
    THEN [kind |-> "reply", resp |-> Reply(400, "Please draw", TRUE, "")]
    ELSE [kind |-> "call", fn |-> Dispatch(r.operation)]

\* POST up to its client call: the two validations, then the switch with the
\* mask checks of erase_element and of the inpaint operations
Route(r) ==
    IF r.image = ""
    THEN [kind |-> "reply", resp |-> Reply(400, "Image is required", FALSE, "")]
    ELSE IF ~r.params
    THEN [kind |-> "reply", resp |-> Reply(400, "FIBO parameters are required", FALSE, "")]
    ELSE IF r.operation \in MaskOps \cup {"erase_element"} /\ r.mask = Null
    THEN [kind |-> "reply", resp |-> Reply(400, "Please draw", TRUE, "")]
    ELSE [kind |-> "call", fn |-> Dispatch(r.operation)]

\* NextResponse.json(result), or the catch block's status 500
Respond(result) ==
    IF result.thrown
    THEN Reply(500, "Failed to generate image", FALSE, "")
    ELSE Reply(200, "", FALSE, result.imageUrl)

\* POST from the request to its first await (or to its response)
Post(r) ==
    /\ pc = "idle"
    /\ req' = r
    /\ LET d == Route(r)
       IN  IF d.kind = "reply"
           THEN /\ resp' = d.resp
                /\ pc' = "done"
                /\ UNCHANGED <<calls, fetches, clientResult>>
           ELSE \E seed \in Seeds :
                LET c == ClientStart(d.fn, r.image, r.mask, apiToken, seed)
                IN  /\ calls' = Append(calls, d.fn)
                    /\ IF c.kind = "return"
                       THEN /\ clientResult' = c.result
                            /\ resp' = Respond(c.result)
                            /\ pc' = "done"
                            /\ UNCHANGED fetches
                       ELSE /\ fetches' = Append(fetches, c.endpoint)
                            /\ pc' = "awaitBackend"
                            /\ UNCHANGED <<clientResult, resp>>
    /\ UNCHANGED <<apiToken, backend>>

\* a request sent to the endpoint by any HTTP client
DirectPost ==
    /\ \E r \in Requests : Post(r)
    /\ UNCHANGED <<editorVars, pageVars, transformVars, pollVars>>

\* a client function called on its own
DirectClientCall ==
    \E fn \in ClientFns, image \in Images \cup {""}, mask \in Masks \cup {Null},
       seed \in Seeds :
        LET c == ClientStart(fn, image, mask, apiToken, seed)
        IN  /\ pc = "idle"
            /\ req' = [via |-> "direct", image |-> image, mask |-> mask, params |-> TRUE,
                       operation |-> Undefined, from |-> "direct"]
            /\ calls' = Append(calls, fn)
            /\ IF c.kind = "return"
               THEN /\ clientResult' = c.result
                    /\ pc' = "done"
                    /\ UNCHANGED fetches
               ELSE /\ fetches' = Append(fetches, c.endpoint)
                    /\ pc' = "awaitBackend"
                    /\ UNCHANGED clientResult
            /\ UNCHANGED <<apiToken, backend, resp, editorVars, pageVars, transformVars, pollVars>>

BackendAnswer_retry ==
    /\ pc = "awaitBackend"
    /\ \E outcome \in BackendOutcomes :
        LET result == ClientFinish(calls[Len(calls)], outcome)
        IN  /\ backend' = outcome
            /\ clientResult' = result
            /\ IF result.thrown /\ Len(fetches) < 2
               THEN /\ fetches' = Append(fetches, fetches[1])
                    /\ UNCHANGED <<pc, resp>>
               ELSE /\ pc' = "done"
                    /\ resp' = IF req.via = "POST" THEN Respond(result) ELSE resp
                    /\ UNCHANGED fetches
    /\ UNCHANGED <<apiToken, req, calls, editorVars, pageVars, transformVars, pollVars>>

\* the backend's answer settles the fetch: the client function returns or
\* throws, and POST returns the result or the catch block's 500
BackendAnswer ==
    /\ pc = "awaitBackend"
    /\ \E outcome \in BackendOutcomes :
        LET result == ClientFinish(calls[Len(calls)], outcome)
        IN  /\ backend' = outcome
            /\ clientResult' = result
            /\ resp' = IF req.via = "POST" THEN Respond(result) ELSE resp
            /\ pc' = "done"
    /\ UNCHANGED <<apiToken, req, calls, fetches, editorVars, pageVars, transformVars, pollVars>>

RouteReset ==
    /\ pc' = "idle"
    /\ req' = NoReq
    /\ calls' = <<>>
    /\ fetches' = <<>>
    /\ backend' = "none"
    /\ clientResult' = NoResult
    /\ resp' = NoResp
    /\ UNCHANGED apiToken

\* the invocation is over; the next one starts from scratch
Finish ==
    /\ pc = "done"
    /\ req.from \in {"http", "direct"}
    /\ RouteReset
    /\ UNCHANGED <<editorVars, pageVars, transformVars, pollVars>>

----------------------------------------------------------------------------
(* editor/page.tsx: StudioPage *)

\* user clicks explored
MaxTriggers == 2

\* currentImage || originalImage
ImageToEdit == IF currentImage # "" THEN currentImage ELSE originalImage

\* a click that reached a handler
Trigger ==
    /\ userTriggers < MaxTriggers
    /\ userTriggers' = userTriggers + 1

\* fetch('/api/generate', ...) with the given body
SendRequest(body) ==
    /\ net' = Append(net, body)
    /\ requestsSent' = requestsSent + 1

\* handleFileUpload, for the first image
Upload ==
    /\ originalImage = ""
    /\ originalImage' = "imgA"
    /\ currentImage' = "imgA"
    /\ UNCHANGED <<maskData, isGenerating, pendingOperation, pageResult, requestsSent,
                   userTriggers, net, editorVars, routeVars, transformVars, pollVars>>

\* the operations of the agent's answers explored: a masked one, one with a
\* function of its own and one of the default branch
AgentOperations == {"inpaint_remove", "background_remove", "generate_new"}

\* handleSendMessage: the agent's answer sets pendingOperation
SetPending ==
    /\ ImageToEdit # ""
    /\ \E op \in AgentOperations : pendingOperation' = op
    /\ UNCHANGED <<originalImage, currentImage, maskData, isGenerating, pageResult,
                   requestsSent, userTriggers, net, editorVars, routeVars, transformVars, pollVars>>

\* handleMaskChange, called by the editor's onMaskChange
HandleMaskChange ==
    /\ \E m \in Masks \cup {Null} : maskData' = m
    /\ UNCHANGED <<pageOther, editorVars, routeVars, transformVars, pollVars>>

\* handleGenerate
HandleGenerateCall ==
    /\ Trigger
    /\ IF ImageToEdit = "" \/ (pendingOperation \in MaskOps /\ maskData = Null)
       THEN UNCHANGED <<isGenerating, net, requestsSent>>
       ELSE /\ isGenerating' = TRUE
            /\ SendRequest([via |-> "POST", image |-> ImageToEdit, mask |-> maskData,
                            params |-> TRUE, operation |-> pendingOperation,
                            from |-> "generate"])
    /\ UNCHANGED <<originalImage, currentImage, maskData, pendingOperation, pageResult,
                   editorVars, routeVars, transformVars, pollVars>>

\* handleGenerate, from the Generate button (disabled without an image and
\* while generating)
HandleGenerate ==
    /\ originalImage # "" /\ ~isGenerating
    /\ HandleGenerateCall

\* handleGenerate, from the chat panel's onGenerate (the panel is disabled
\* without an image; it is not told about isGenerating)
ChatGenerate ==
    /\ originalImage # ""
    /\ HandleGenerateCall

\* the ids of the QuickAction type
QuickActions == {"background_remove", "background_blur", "background_replace",
                   "image_expand", "image_upscale", "hdr_enhance", "erase_element"}

\* the ids of the QUICK_ACTIONS array, one panel button each
QUICK_ACTIONS == <<"background_remove", "background_blur", "background_replace",
                   "image_expand", "image_upscale", "erase_element">>

\* the buttons of QuickActionsPanel that can be clicked: none without an image
\* or while processing
PanelButtons ==
    IF originalImage # "" /\ ~isGenerating
    THEN {QUICK_ACTIONS[k] : k \in DOMAIN QUICK_ACTIONS}
    ELSE {}

\* handleQuickAction, called by a panel button's onAction(action.id);
\* replaceCancelled: window.prompt returned nothing
HandleQuickAction ==
    \E action \in PanelButtons, replaceCancelled \in BOOLEAN :
        /\ Trigger
        /\ IF \/ ImageToEdit = ""
              \/ (action = "erase_element" /\ maskData = Null)
              \/ (action = "background_replace" /\ replaceCancelled)
           THEN UNCHANGED <<isGenerating, net, requestsSent>>
           ELSE /\ isGenerating' = TRUE
                /\ SendRequest([via |-> "POST", image |-> ImageToEdit,
                                mask |-> IF action = "erase_element" THEN maskData ELSE Null,
                                params |-> TRUE, operation |-> action, from |-> "quick"])
        /\ UNCHANGED <<originalImage, currentImage, maskData, pendingOperation,
                       pageResult, editorVars, routeVars, transformVars, pollVars>>

\* handleCombineImages, from the Merge button (shown when two uploaded images
\* are selected, disabled while generating)
HandleCombineImages ==
    /\ originalImage # "" /\ ~isGenerating
    /\ Trigger
    /\ isGenerating' = TRUE
    /\ SendRequest([via |-> "POST", image |-> "imgA", mask |-> Null, params |-> TRUE,
                    operation |-> "combine_images", from |-> "combine"])
    /\ UNCHANGED <<originalImage, currentImage, maskData, pendingOperation, pageResult,
                   editorVars, routeVars, transformVars, pollVars>>

\* the chat message of a handler's catch block
PageError(status) == IF status = 400 THEN "error400" ELSE "error500"

\* the endpoint receives the page's oldest request in flight
RouteReceive ==
    /\ net # <<>>
    /\ Post(net[1])
    /\ UNCHANGED <<editorVars, pageVars, transformVars, pollVars>>

PageOnResponse_retry ==
    /\ pc = "done" /\ net # <<>> /\ req = net[1]
    /\ RouteReset
    /\ IF resp.status # 200
       THEN /\ pageResult' = PageError(resp.status)
            /\ net' = Append(Tail(net), req)
            /\ requestsSent' = requestsSent + 1
            /\ UNCHANGED <<isGenerating, currentImage, maskData, pendingOperation,
                           editorVars>>
       ELSE /\ pageResult' = "applied"
            /\ net' = Tail(net)
            /\ isGenerating' = FALSE
            /\ UNCHANGED <<requestsSent, currentImage, maskData, pendingOperation,
                           editorVars>>
    /\ UNCHANGED <<originalImage, userTriggers, transformVars, pollVars>>

\* the rest of a handler after its fetch resolved: a non-OK response throws
\* into the catch block; an OK one updates the image and, after Generate and
\* after Erase, clears the mask; finally isGenerating is reset
PageOnResponse ==
    /\ pc = "done" /\ net # <<>> /\ req = net[1]
    /\ RouteReset
    /\ net' = Tail(net)
    /\ isGenerating' = FALSE
    /\ IF resp.status # 200
       THEN /\ pageResult' = PageError(resp.status)
            /\ UNCHANGED <<currentImage, maskData, pendingOperation, editorVars>>
       ELSE /\ pageResult' = "applied"
            /\ currentImage' = IF resp.imageUrl = Undefined THEN "" ELSE resp.imageUrl
            /\ IF req.from = "generate" \/ (req.from = "quick" /\ req.operation = "erase_element")
               THEN /\ ClearMaskEffect
                    /\ maskData' = Null
                    /\ undoRun' = OffRun
                    /\ UNCHANGED <<isDrawing, isPanning, lastOp, lastCan, steps>>
               ELSE UNCHANGED <<maskData, editorVars>>
            /\ pendingOperation' = IF req.from = "generate" THEN Undefined
                                   ELSE pendingOperation
    /\ UNCHANGED <<originalImage, requestsSent, userTriggers, transformVars, pollVars>>

----------------------------------------------------------------------------
PageInit ==
    /\ originalImage = ""
    /\ currentImage = ""
    /\ isGenerating = FALSE
    /\ pendingOperation = Undefined
    /\ pageResult = "none"
    /\ requestsSent = 0
    /\ userTriggers = 0
    /\ net = <<>>

RouteInit ==
    /\ apiToken \in BOOLEAN
    /\ pc = "idle"
    /\ req = NoReq
    /\ calls = <<>>
    /\ fetches = <<>>
    /\ backend = "none"
    /\ clientResult = NoResult
    /\ resp = NoResp

TransformInit ==
    /\ rotation = 0
    /\ isRotating = FALSE
    /\ hasRotationChanges = FALSE
    /\ isCropping = FALSE
    /\ cropArea = ZeroArea
    /\ hasCropChanges = FALSE
    /\ imageUpdates = <<>>
    /\ keys = 0
    /\ lastKey = [key |-> "none", target |-> "none", mode |-> "none", changes |-> FALSE]

\* a call of pollGenerationStatus with maxAttempts in 0 .. MaxAttempts
PollInit ==
    /\ maxAttempts \in 0 .. MaxAttempts
    /\ pollI = 0
    /\ pollPc = "loop"
    /\ statusRequests = 0
    /\ responses = <<>>
    /\ pollOutcome = "none"

\* no poll is running
PollIdle ==
    /\ maxAttempts = 0
    /\ pollI = 0
    /\ pollPc = "idle"
    /\ statusRequests = 0
    /\ responses = <<>>
    /\ pollOutcome = "none"

\* the editor after an image load followed by n completed brush strokes
EditorInit ==
    \E n \in InitStrokes :
        /\ history = StrokesDone(n).history
        /\ historyIndex = StrokesDone(n).historyIndex
        /\ canvas = n
        /\ hasMask = (n > 0)
        /\ maskData = ExportMask(n, n > 0)
        /\ isDrawing = FALSE
        /\ isPanning = FALSE
        /\ lastOp = "init"
        /\ lastCan = FALSE
        /\ steps = 0
        /\ undoRun = [strokes |-> n, undos |-> 0]

EditorNext ==
    \/ PointerDown
    \/ PointerMove
    \/ PointerUp
    \/ ClearMask
    \/ Undo
    \/ Redo
    \/ LoadImage

RouteNext ==
    \/ DirectPost
    \/ DirectClientCall
    \/ BackendAnswer
    \/ Finish

\* a fresh editor and page; the token is set or not
InitRoute ==
    EditorInit /\ Len(history) = 0 /\ PageInit /\ RouteInit /\ TransformInit /\ PollIdle

SpecRoute == InitRoute /\ [][RouteNext]_vars

PageNext ==
    \/ Upload
    \/ SetPending
    \/ HandleMaskChange
    \/ HandleGenerate
    \/ ChatGenerate
    \/ HandleQuickAction
    \/ HandleCombineImages
    \/ RouteReceive
    \/ BackendAnswer
    \/ PageOnResponse

\* a fresh editor and page; the token is set or not
InitPage ==
    EditorInit /\ Len(history) = 0 /\ PageInit /\ RouteInit /\ TransformInit /\ PollIdle

SpecPage == InitPage /\ [][PageNext]_vars

\* the editor on a fresh page, after 0 or 49 completed strokes
InitEditor ==
    EditorInit /\ PageInit /\ RouteInit /\ apiToken = TRUE /\ TransformInit /\ PollIdle

SpecEditor == InitEditor /\ [][EditorNext]_vars

TransformNext ==
    \/ Upload
    \/ RotateButton
    \/ CropButton
    \/ RotationSlider
    \/ CropDrag
    \/ ApplyButton
    \/ CancelButton
    \/ ResetTransforms
    \/ KeyDown

\* the editor on a fresh page
InitTransform ==
    /\ EditorInit /\ Len(history) = 0 /\ PageInit /\ RouteInit /\ apiToken = TRUE
    /\ TransformInit /\ PollIdle

SpecTransform == InitTransform /\ [][TransformNext]_vars

PollNext ==
    \/ PollLoop
    \/ PollResponse
    \/ PollRejected
    \/ PollWake

\* one call of pollGenerationStatus
InitPoll ==
    /\ EditorInit /\ Len(history) = 0 /\ PageInit /\ RouteInit /\ apiToken = TRUE
    /\ TransformInit /\ PollInit

\* every fetch settles and every timer fires
SpecPoll == InitPoll /\ [][PollNext]_vars /\ WF_vars(PollNext)

----------------------------------------------------------------------------
(* Undo history *)

\* a handler invocation that called saveToHistory
SaveStep ==
    /\ steps' = steps + 1
    /\ \/ lastOp' = "pointerUp" /\ isDrawing
       \/ lastOp' = "clearMask"

\* C1: the history never holds more than 50 snapshots, and a save that would
\* make it 51 drops the oldest snapshot and keeps the newest (the canvas that
\* was just saved) as the last entry.
C1_HistoryBounded ==
    /\ [](Len(history) <= HistoryLimit)
    /\ [][(SaveStep /\ historyIndex + 1 = HistoryLimit)
            => /\ Len(history') = HistoryLimit
               /\ history' = Append(Tail(SubSeq(history, 1, historyIndex + 1)), canvas')]_vars

\* a save evicted snapshot 1 of a full history: the history is still full,
\* starts at the second snapshot and ends with the canvas just saved
C1_Witness ==
    /\ lastOp = "pointerUp"
    /\ Len(history) = HistoryLimit
    /\ history[1] = 2
    /\ history[HistoryLimit] = canvas
    /\ canvas > HistoryLimit

\* C2: right after saveToHistory the cursor is on the last snapshot, so no
\* redo state is left, also when the save follows undos.
C2_SaveDiscardsRedo ==
    [][SaveStep => /\ historyIndex' = Len(history') - 1
                   /\ ~CanRedo'
                   /\ history'[Len(history')] = canvas']_vars

\* clearMask saved after an undo: the snapshot the undo stepped back from is
\* gone (the history is one shorter than a plain save would leave it)
C2_Witness ==
    /\ lastOp = "clearMask"
    /\ Len(history) = HistoryLimit - 1
    /\ history[Len(history)] = Blank
    /\ historyIndex = Len(history) - 1

\* C3: undo moves the cursor back by one exactly when canUndo is true and redo
\* moves it forward by one exactly when canRedo is true; called with the flag
\* false they leave history, historyIndex and the mask unchanged.
C3_FlagsAgree ==
    [][/\ (steps' = steps + 1 /\ lastOp' = "undo" /\ ~CanUndo)
            => UNCHANGED <<history, historyIndex, canvas, hasMask, maskData>>
       /\ (steps' = steps + 1 /\ lastOp' = "redo" /\ ~CanRedo)
            => UNCHANGED <<history, historyIndex, canvas, hasMask, maskData>>
       /\ (steps' = steps + 1 /\ lastOp' = "undo" /\ CanUndo)
            => historyIndex' = historyIndex - 1 /\ canvas' = history[historyIndex]
       /\ (steps' = steps + 1 /\ lastOp' = "redo" /\ CanRedo)
            => historyIndex' = historyIndex + 1 /\ canvas' = history[historyIndex + 2]]_vars

\* undo was called on a non-empty history whose cursor is on the first
\* snapshot, with canUndo false
C3_Witness ==
    /\ lastOp = "undo"
    /\ ~lastCan
    /\ historyIndex = 0
    /\ Len(history) >= 1

----------------------------------------------------------------------------
(* The generate endpoint and the backend client *)

\* POST is handling, or has answered, a request with image and params
ValidPost == pc # "idle" /\ req.via = "POST" /\ req.image # "" /\ req.params

\* C4: a mask-requiring operation that arrives with image and params but
\* without a mask is answered 400 with needsMask, and no client function is
\* called and nothing is fetched.
C4_MaskRequired ==
    (ValidPost /\ req.operation \in {"inpaint_remove", "inpaint_replace",
                                     "inpaint_add", "erase_element"}
               /\ req.mask = Null)
        => /\ pc = "done"
           /\ resp.status = 400
           /\ resp.needsMask
           /\ calls = <<>>
           /\ fetches = <<>>

\* an inpaint_add request without a mask was rejected although a token is set
C4_Witness ==
    /\ ValidPost /\ req.operation = "inpaint_add" /\ req.mask = Null
    /\ apiToken
    /\ resp.status = 400

\* the client function the claim assigns to each dedicated operation
ExpectedFn(operation) ==
    CASE operation = "background_remove"  -> "removeBackground"
      [] operation = "background_blur"    -> "blurBackground"
      [] operation = "background_replace" -> "replaceBackground"
      [] operation = "image_expand"       -> "expandImage"
      [] operation = "image_upscale"      -> "upscaleImage"
      [] operation = "hdr_enhance"        -> "enhanceImage"
      [] operation = "erase_element"      -> "eraseElements"

\* C5: for a valid request with a dedicated operation (erase_element with a
\* mask) POST calls exactly one client function, once, the one of that
\* operation, and fetches at most that function's endpoint.
C5_DedicatedDispatch ==
    (ValidPost /\ req.operation \in DedicatedOps
               /\ (req.operation = "erase_element" => req.mask # Null))
        => /\ calls = <<ExpectedFn(req.operation)>>
           /\ Len(fetches) <= 1
           /\ (apiToken => fetches = <<EditEndpoint(ExpectedFn(req.operation))>>)

\* an hdr_enhance request was answered from the enhance endpoint
C5_Witness ==
    /\ ValidPost /\ req.operation = "hdr_enhance"
    /\ pc = "done"
    /\ calls = <<"enhanceImage">>
    /\ fetches = <<"/v2/image/edit/enhance">>
    /\ resp.status = 200

\* C6: with a token, every valid generate_new or style_transfer request is
\* sent to /image/generate.
C6_GenerateNewEndpoint ==
    (ValidPost /\ apiToken /\ req.operation \in {"generate_new", "style_transfer"})
        => fetches = <<"/v2/image/generate">>

\* C7: with a token generateImage fetches exactly one endpoint: gen_fill when
\* image and mask are both non-empty, /image/generate otherwise.
C7_MaskDecidesEndpoint ==
    (pc # "idle" /\ apiToken /\ calls # <<>> /\ calls[1] = "generateImage")
        => /\ Len(fetches) = 1
           /\ (fetches[1] = "/v2/image/edit/gen_fill")
                <=> (req.image # "" /\ req.mask # Null)
           /\ (fetches[1] = "/v2/image/generate")
                <=> ~(req.image # "" /\ req.mask # Null)

\* generateImage was called with a mask but without an image and used
\* /image/generate
C7_Witness ==
    /\ apiToken /\ calls = <<"generateImage">>
    /\ req.image = "" /\ req.mask # Null
    /\ fetches = <<"/v2/image/generate">>

\* C8: a request without image is answered 400 'Image is required' whatever
\* else it holds, one with image but without params 400 'FIBO parameters are
\* required', and no request answered 400 reached a client function.
C8_ValidationFirst ==
    /\ (pc # "idle" /\ req.via = "POST" /\ req.image = "")
          => pc = "done" /\ resp.status = 400 /\ resp.error = "Image is required"
    /\ (pc # "idle" /\ req.via = "POST" /\ req.image # "" /\ ~req.params)
          => pc = "done" /\ resp.status = 400
               /\ resp.error = "FIBO parameters are required"
    /\ resp.status = 400 => calls = <<>> /\ fetches = <<>>

\* a request with neither image nor params, but with a mask and an
\* operation, was answered 'Image is required'
C8_Witness ==
    /\ pc = "done" /\ req.via = "POST"
    /\ req.image = "" /\ ~req.params /\ req.mask # Null
    /\ req.operation = "erase_element"
    /\ resp.error = "Image is required"

\* C9: when the backend answers non-OK or the fetch throws, POST has made
\* exactly one backend request and answers 500 with an error message; once it
\* has answered 500 nothing more is fetched for that request, and the page
\* sends a request only on a user's click, never after a failed response.
C9_NoRetry ==
    /\ []((pc = "done" /\ req.via = "POST" /\ backend \in {"notOk", "networkError"})
            => Len(fetches) = 1 /\ resp.status = 500 /\ resp.error # "")
    /\ [](requestsSent <= userTriggers)
    /\ [][(pc = "done" /\ resp.status = 500)
            => /\ fetches' = fetches \/ fetches' = <<>>
               /\ requestsSent' = requestsSent \/ userTriggers' > userTriggers
               /\ Len(net') <= Len(net) \/ userTriggers' > userTriggers]_vars

\* the page has shown the error of a failed request: nothing is in flight and
\* the one click made one request
C9_Witness ==
    /\ pageResult = "error500"
    /\ net = <<>>
    /\ ~isGenerating
    /\ requestsSent = 1
    /\ userTriggers = 1

\* C10: without a token nothing is fetched; the seven dedicated client
\* functions return the input image as imageUrl and generateImage returns the
\* mock placeholder.
C10_NoTokenNoNetwork ==
    ~apiToken =>
        /\ fetches = <<>>
        /\ pc # "awaitBackend"
        /\ (pc = "done" /\ calls # <<>>) =>
              /\ ~clientResult.thrown
              /\ calls[1] \in EditFns => clientResult.imageUrl = req.image
              /\ calls[1] = "generateImage" =>
                    \E seed \in Seeds :
                        /\ clientResult.imageUrl = PlaceholderUrl(seed)
                        /\ clientResult.seed = seed

\* eraseElements was called on its own without a token and handed imgB back
C10_Witness ==
    /\ ~apiToken /\ pc = "done"
    /\ calls = <<"eraseElements">>
    /\ req.via = "direct" /\ req.image = "imgB"
    /\ clientResult.imageUrl = "imgB"

----------------------------------------------------------------------------
\* C11: at most one /api/generate request of the page is in flight at any
\* time: handleGenerate, handleQuickAction and handleCombineImages never start
\* a request while an earlier one is pending.
C11_OneInFlight == Len(net) <= 1

----------------------------------------------------------------------------
\* C12: every QuickAction id can be triggered from the quick-actions panel:
\* whenever the panel is enabled, each of the seven ids has a button whose
\* click calls onAction with that id.
C12_AllActionsOffered ==
    (originalImage # "" /\ ~isGenerating) => QuickActions \subseteq PanelButtons

----------------------------------------------------------------------------
Finished(data) == data.status = "completed" /\ data.result
Failed(data) == data.status = "failed"
PollDone == pollPc \in {"returned", "thrown"}
NoneFinal == \A k \in 1 .. Len(responses) : ~Finished(responses[k]) /\ ~Failed(responses[k])
TimedOut ==
    /\ pollOutcome = "throw Generation timed out"
    /\ statusRequests = maxAttempts
    /\ Len(responses) = maxAttempts

\* at most maxAttempts requests; the first finished response is the last one
\* and is returned; the first failed response is the last one and is thrown;
\* nothing is returned but a finished response; a time-out is thrown after
\* maxAttempts requests only
PollRules ==
    /\ statusRequests <= maxAttempts
    /\ Len(responses) <= statusRequests
    /\ \A k \in 1 .. Len(responses) :
        /\ Finished(responses[k])
            => k = Len(responses) /\ pollPc = "returned" /\ pollOutcome = "return"
        /\ Failed(responses[k])
            => /\ k = Len(responses) /\ pollPc = "thrown"
               /\ pollOutcome \in {"throw data.error", "throw Generation failed"}
    /\ pollPc = "returned" => responses # <<>> /\ Finished(responses[Len(responses)])
    /\ pollOutcome = "throw Generation timed out" => TimedOut /\ NoneFinal

----------------------------------------------------------------------------
\* C14: pressing Enter in rotate mode with pending rotation changes, and not in
\* crop mode with pending crop changes, calls onImageUpdate with the rotated
\* image and leaves rotation 0, isRotating false and hasRotationChanges false.
C14_EnterAppliesRotation ==
    [][(/\ keys' = keys + 1 /\ lastKey'.key = "Enter"
        /\ isRotating /\ hasRotationChanges
        /\ ~(isCropping /\ hasCropChanges))
          => /\ imageUpdates' = Append(imageUpdates, "rotated")
             /\ rotation' = 0 /\ ~isRotating' /\ ~hasRotationChanges']_vars

----------------------------------------------------------------------------
\* what Escape is to do: no onImageUpdate and no new image; crop mode is left
\* with a zero cropArea and no crop changes; rotate mode (not cropping) is left
\* with rotation 0 and no rotation changes
Cancelled ==
    /\ isCropping => ~isCropping' /\ cropArea' = ZeroArea /\ ~hasCropChanges'
    /\ (isRotating /\ ~isCropping)
          => rotation' = 0 /\ ~isRotating' /\ ~hasRotationChanges'

ImageKept == imageUpdates' = imageUpdates /\ UNCHANGED <<currentImage, originalImage>>

----------------------------------------------------------------------------
\* C16: after an image load, n >= 1 strokes and then n undos, the mask is empty
\* again: blank canvas, hasMask false, the page's maskData null.
C16_UndoAll ==
    (undoRun.strokes >= 1 /\ undoRun.undos = undoRun.strokes)
        => canvas = Blank /\ ~hasMask /\ maskData = Null

----------------------------------------------------------------------------
\* C17: the history cursor is in range, -1 <= historyIndex <= history.length - 1,
\* and it is -1 exactly when the history is empty.
C17_IndexInRange ==
    /\ -1 <= historyIndex
    /\ historyIndex <= Len(history) - 1
    /\ historyIndex = -1 <=> Len(history) = 0

\* the cursor after the 50-entry eviction and an undo
C17_Witness ==
    /\ Len(history) = HistoryLimit /\ history[1] = 2
    /\ lastOp = "undo" /\ historyIndex = HistoryLimit - 2

====
